---- MODULE Spec2Model ----
(***************************************************************************)
(* Model of the serverless-ide language server (server.ts, kept here as    *)
(* src/unnamed/part_000) and of its hover service                          *)
(* (language-service/services/hover/index.ts).                             *)
(*                                                                         *)
(* Texts are sequences of one-character strings, offsets are 0-based as in *)
(* the source, and JavaScript's undefined / NaN is the value Undef.        *)
(***************************************************************************)
EXTENDS Integers, Sequences, FiniteSets, TLC

VARIABLES
    documents,  \* the text document manager: uri -> the open document, or NoDoc
    pendingValidationRequests, \* uri -> the handle of its validation timer, or NoTimer
    timers,     \* the timers made by setTimeout, by handle: uri and set/cleared/fired
    inflight,   \* doValidation promises not yet resolved, one record per run
    sent,       \* the connection.sendDiagnostics calls made so far, in order
    schemaCache,\* the schema service's cache: whether the schema is held, and the fetches made
    wLast,      \* the last watched-files notification and the calls its handler made
    yamlShouldHover, \* the server's hover setting
    qCall,      \* the last hover or document-symbol request and the call its handler made
    cReq,       \* completion: the last request as sent, uri and position
    cReply,     \* completion: how the last request was answered
    cCall,      \* completion: the arguments the last doComplete call received
    shouldHover,\* YAMLHover.shouldHover
    toldOff,    \* whether the last configure call that passed settings had hover = false
    hShape,     \* hover: the shape of the YAML document handed to doHover
    hReq,       \* hover: the doHover call followed, its inputs
    hOut,       \* hover: what that call returned and the lookups it made
    hPc         \* hover: where that call stands: idle, awaiting, settled

dvars == <<documents>>
vvars == <<pendingValidationRequests, timers, inflight, sent, schemaCache>>
wvars == <<wLast, yamlShouldHover, qCall>>
cvars == <<cReq, cReply, cCall>>
hvars == <<shouldHover, toldOff, hShape, hReq, hOut, hPc>>
vars == <<documents, pendingValidationRequests, timers, inflight, sent, schemaCache,
          wLast, yamlShouldHover, qCall, cReq, cReply, cCall,
          shouldHover, toldOff, hShape, hReq, hOut, hPc>>

\* ------------------------------------------------------------------ bounds
MaxLen == 4
MaxDiags == 2
MaxSent == 3
MaxTimers == 3
MaxLevels == 4

\* -------------------------------------------------------------- characters
LF == "\n"
CR == "\r"
SP == " "
COLON == ":"
DASH == "-"
Alphabet == {"a", COLON, DASH, SP, LF, CR}

Undef == -1

Min(a, b) == IF a < b THEN a ELSE b
Max(a, b) == IF a > b THEN a ELSE b

\* All character sequences of length at most n.
TextsUpTo(n) == UNION {[1..k -> Alphabet] : k \in 0..n}

\* ------------------------------------------------- JavaScript string helpers
\* An index argument coerced as String.prototype.substring does: NaN and
\* negatives become 0, values beyond the length become the length.
ClampIdx(s, i) == IF i < 0 THEN 0 ELSE Min(i, Len(s))

\* s.substring(a, b): both ends clamped, swapped when a > b.
Substring_dropFirst(s, a, b) ==
    LET ca == ClampIdx(s, a)
        cb == ClampIdx(s, b)
        lo == Min(ca, cb)
        hi == Max(ca, cb)
    IN  SubSeq(s, lo + 2, hi)
Substring(s, a, b) ==
    LET ca == ClampIdx(s, a)
        cb == ClampIdx(s, b)
        lo == Min(ca, cb)
        hi == Max(ca, cb)
    IN  SubSeq(s, lo + 1, hi)

\* s.substr(from) with from >= 0: the tail of s from index from.
Substr(s, from) == SubSeq(s, ClampIdx(s, from) + 1, Len(s))

\* s.indexOf(ch) >= 0 for a one-character needle.
HasChar(s, ch) == \E i \in 1..Len(s) : s[i] = ch

IsWhite(c) == c \in {SP, LF, CR}

RECURSIVE TrimLeft(_)
TrimLeft(s) == IF s # <<>> /\ IsWhite(Head(s)) THEN TrimLeft(Tail(s)) ELSE s

RECURSIVE TrimRight(_)
TrimRight(s) ==
    IF s # <<>> /\ IsWhite(s[Len(s)]) THEN TrimRight(SubSeq(s, 1, Len(s) - 1)) ELSE s

\* s.trim()
Trim(s) == TrimRight(TrimLeft(s))

\* s.endsWith(" ")
EndsWithSpace(s) == s # <<>> /\ s[Len(s)] = SP

\* ------------------------------------------------------------ line offsets
\* The loop of getLineOffsets: i is the 0-based index, acc the offsets so far.
RECURSIVE LineOffsetsLoop(_, _, _, _)
LineOffsetsLoop(text, i, isLineStart, acc) ==
    IF i >= Len(text)
    THEN IF isLineStart /\ Len(text) > 0 THEN Append(acc, Len(text)) ELSE acc
    ELSE LET acc2 == IF isLineStart THEN Append(acc, i) ELSE acc
             ch   == text[i + 1]
             eol  == ch = CR \/ ch = LF
             skip == ch = CR /\ i + 1 < Len(text) /\ text[i + 2] = LF
         IN  LineOffsetsLoop(text, IF skip THEN i + 2 ELSE i + 1, eol, acc2)

getLineOffsets(text) == LineOffsetsLoop(text, 0, TRUE, <<>>)

\* lineOffset[k] of a JavaScript array: undefined beyond its length.
At(arr, k) == IF k >= 0 /\ k < Len(arr) THEN arr[k + 1] ELSE Undef

\* JavaScript truthiness of a number-or-undefined.
Truthy(n) == n # Undef /\ n # 0

\* -------------------------------------------------------- completionHelper
is_EOL(c) == c = LF \/ c = CR

\* The while loop that moves end left over line terminators.
RECURSIVE StripEOL(_, _)
StripEOL(text, end) ==
    IF end - 1 >= 0 /\ is_EOL(text[end]) THEN StripEOL(text, end - 1) ELSE end

Holder == <<"h", "o", "l", "d", "e", "r", COLON, CR, LF>>
ColonCRLF == <<COLON, CR, LF>>

\* The text of the line completionHelper looks at.
TextLine(text, linePos) ==
    LET lineOffset == getLineOffsets(text)
        start == At(lineOffset, linePos)
        end0  == IF Truthy(At(lineOffset, linePos + 1))
                 THEN At(lineOffset, linePos + 1)
                 ELSE Len(text)
    IN  Substring(text, start, StripEOL(text, end0))

\* textLine.indexOf(":") === -1
ColonMissing_firstOnly(textLine) == textLine = <<>> \/ textLine[1] # COLON
ColonMissing(textLine) == ~HasChar(textLine, COLON)

\* start + textLine.length, the offset the splice is made at (NaN when start
\* is undefined).
SpliceAt_trimmed(start, textLine) ==
    IF start = Undef THEN Undef ELSE start + Len(Trim(textLine))
SpliceAt(start, textLine) ==
    IF start = Undef THEN Undef ELSE start + Len(textLine)

\* completionHelper(document, textDocumentPosition).  The result carries, besides
\* newText and newPosition, the state of the argument object after the call
\* (argPosition): position is an alias of textDocumentPosition, so the
\* assignment to position.character writes into the caller's object.
completionHelper(text, pos) ==
    LET linePos    == pos.line
        lineOffset == getLineOffsets(text)
        start      == At(lineOffset, linePos)
        textLine   == TextLine(text, linePos)
        trimmed    == Trim(textLine)
        rest       == Substr(text, IF Truthy(At(lineOffset, linePos + 1))
                                   THEN At(lineOffset, linePos + 1)
                                   ELSE Len(text))
    IN  IF ColonMissing(textLine)
        THEN IF Len(trimmed) = 0 \/ (Len(trimmed) = 1 /\ trimmed[1] = DASH)
             THEN [newText |-> Substring(text, 0, SpliceAt(start, textLine))
                               \o (IF Len(trimmed) > 0 /\ trimmed[1] = DASH
                                      /\ ~EndsWithSpace(textLine)
                                   THEN <<SP>> ELSE <<>>)
                               \o Holder \o rest,
                   newPosition |-> pos,
                   argPosition |-> pos]
             ELSE [newText |-> Substring(text, 0, SpliceAt(start, textLine))
                               \o ColonCRLF \o rest,
                   newPosition |-> pos,
                   argPosition |-> pos]
        ELSE LET shifted == [pos EXCEPT !.character = pos.character - 1]
             IN  [newText |-> text,
                  newPosition |-> shifted,
                  argPosition |-> shifted]

\* ---------------------------------------------------------------- documents
URIs == {"u1", "u2"}
NoDoc == [open |-> FALSE]

\* An open document: its text, what the document-type classifier says of it,
\* and the problems the validation service finds in it (range, message and
\* severity each), in the order the service reports them.
Ranges == {"r1", "r2"}
Messages == {"m1", "m2"}
Severities == 1..4
RawDiagnostics == [range : Ranges, message : Messages, severity : Severities]
ProblemLists(n) == UNION {[1..k -> RawDiagnostics] : k \in 0..n}

\* The content of line k as the document's own line table delimits it: from the
\* line's offset up to, and not including, its first line-terminator character.
RECURSIVE ContentEnd(_, _)
ContentEnd(text, i) ==
    IF i < Len(text) /\ ~is_EOL(text[i + 1]) THEN ContentEnd(text, i + 1) ELSE i

LineStart(text, k) == IF At(getLineOffsets(text), k) = Undef THEN 0
                      ELSE At(getLineOffsets(text), k)
LineEnd(text, k) == ContentEnd(text, LineStart(text, k))
LineContent(text, k) == SubSeq(text, LineStart(text, k) + 1, LineEnd(text, k))
NextLineStart(text, k) == IF At(getLineOffsets(text), k + 1) = Undef THEN Len(text)
                          ELSE At(getLineOffsets(text), k + 1)

\* The positions a client can send for a text: a line of the document and a
\* column within that line's content (one line, column 0, for the empty text).
Positions(text) ==
    {p \in [line : 0..Max(Len(getLineOffsets(text)) - 1, 0), character : 0..Len(text)] :
        p.character <= Len(LineContent(text, p.line))}

\* isSupportedDocument(text): the document-type classifier, a property the
\* document has from the moment it is opened.
isSupportedDocument(doc) == doc.supported

\* ------------------------------------------------------------------ parsing
\* The configured custom tags; two of the sixteen stand for the list.
customTags == {"!Ref", "!Sub"}
\* The tag list parseYAML works with when the caller passes none.
NoTags == {}
\* A tag written in a text is one token of it.
TagTokens == {"!Ref", "!Foo"}

\* parseYAML(text, customTags), as far as tags go: what each token of the text
\* became in the tree, a Custom-Tag node for a listed tag and a literal scalar
\* for an unlisted one.
parseYAML(text, tags) ==
    [i \in 1..Len(text) |->
        IF text[i] \in TagTokens
        THEN (IF text[i] \in tags THEN "customTag" ELSE "scalar")
        ELSE "plain"]

\* --------------------------------------------------------------- validation
\* customLanguageService.doValidation(textDocument, yamlDocument): the
\* problems of the document as parsed when the run starts.
doValidation(doc) == doc.problems

\* removeDuplicatesObj: the entries of the array in order, each kept unless an
\* equal entry came before it.
RECURSIVE removeDuplicatesObj(_)
removeDuplicatesObj(objArray) ==
    IF objArray = <<>> THEN <<>>
    ELSE LET front == removeDuplicatesObj(SubSeq(objArray, 1, Len(objArray) - 1))
             last  == objArray[Len(objArray)]
         IN  IF \E i \in 1..Len(front) : front[i] = last
             THEN front ELSE Append(front, last)

\* diagnosticItem.severity = 1
ConvertSeverity_warningsOnly(diagnosticItem) ==
    IF diagnosticItem.severity = 2
    THEN [diagnosticItem EXCEPT !.severity = 1] ELSE diagnosticItem
ConvertSeverity(diagnosticItem) == [diagnosticItem EXCEPT !.severity = 1]

\* The body of the then-callback: every item converted and pushed, and the
\* list sent with its duplicates removed.
DiagnosticsToSend_dedupFirst(diagnosticResults) ==
    LET kept == removeDuplicatesObj(diagnosticResults)
    IN  [i \in 1..Len(kept) |-> ConvertSeverity(kept[i])]
DiagnosticsToSend(diagnosticResults) ==
    removeDuplicatesObj(
        [i \in 1..Len(diagnosticResults) |-> ConvertSeverity(diagnosticResults[i])])

\* One connection.sendDiagnostics call; of is the document the list was
\* computed from (NoDoc for the call made on close) and run the number of the
\* validateTextDocument call that led to it, in the order the calls were made
\* (0 for the call made on close).
Sent(uri, diagnostics, of, run) ==
    [uri |-> uri, diagnostics |-> diagnostics, of |-> of, run |-> run]

\* The server's scheduling state as the functions below pass it along.
Here ==
    [pendingValidationRequests |-> pendingValidationRequests, timers |-> timers,
     inflight |-> inflight, sent |-> sent, schemaCache |-> schemaCache]
Becomes(st) ==
    /\ pendingValidationRequests' = st.pendingValidationRequests
    /\ timers' = st.timers
    /\ inflight' = st.inflight
    /\ sent' = st.sent
    /\ schemaCache' = st.schemaCache

\* The validateTextDocument calls made so far that reached a document.
RunsStarted(st) ==
    Cardinality({i \in 1..Len(st.sent) : st.sent[i].run > 0}) + Len(st.inflight)

\* The schema service's cache for the schema the documents are bound to.
\* A lookup that finds the schema held waits for the fetch that brought it; one
\* that does not starts a new fetch, whose result is held from then on.
SchemaUri == "s1"
NoSchemaCached == [cached |-> FALSE, fetch |-> 0]
Lookup(cache) ==
    IF cache.cached THEN cache ELSE [cached |-> TRUE, fetch |-> cache.fetch + 1]

\* resetSchema(uri): the entry evicted, and whether there was one.
resetSchema(uri, cache) ==
    IF uri = SchemaUri /\ cache.cached
    THEN [cache |-> [cache EXCEPT !.cached = FALSE], evicted |-> TRUE]
    ELSE [cache |-> cache, evicted |-> FALSE]

\* validateTextDocument(textDocument), up to the call of doValidation.
validateTextDocument(uri, doc, st) ==
    LET run == RunsStarted(st) + 1
    IN  IF ~doc.open THEN st
        ELSE IF Len(doc.text) = 0
        THEN [st EXCEPT !.sent = Append(@, Sent(uri, <<>>, doc, run))]
        ELSE IF ~isSupportedDocument(doc)
        THEN [st EXCEPT !.sent = Append(@, Sent(uri, <<>>, doc, run))]
        ELSE LET yamlDocument == parseYAML(doc.text, customTags)
                 cache == Lookup(st.schemaCache)
             IN  [st EXCEPT !.schemaCache = cache,
                            !.inflight =
                                Append(@, [uri |-> uri,
                                           diagnosticResults |-> doValidation(doc),
                                           of |-> doc,
                                           yamlDocument |-> yamlDocument,
                                           fetch |-> cache.fetch,
                                           run |-> run])]

\* A timer as setTimeout made it, and the absence of a handle.
NoTimer == 0
Timer(uri) == [uri |-> uri, state |-> "set"]

\* cleanPendingValidation(textDocument)
cleanPendingValidation_forgetOnly(uri, st) ==
    [st EXCEPT !.pendingValidationRequests[uri] = NoTimer]
cleanPendingValidation(uri, st) ==
    LET request == st.pendingValidationRequests[uri]
    IN  IF request # NoTimer
        THEN [st EXCEPT !.timers[request].state = "cleared",
                        !.pendingValidationRequests[uri] = NoTimer]
        ELSE st

\* triggerValidation(textDocument): the old timer cleared, a new one set.
triggerValidation(uri, st) ==
    LET cleaned == cleanPendingValidation(uri, st)
    IN  [cleaned EXCEPT !.timers = Append(@, Timer(uri)),
                        !.pendingValidationRequests[uri] = Len(cleaned.timers) + 1]

\* documents.all(): the open documents' uris, in the order they were opened.
RECURSIVE OpenFrom(_, _)
OpenFrom(docs, order) ==
    IF order = <<>> THEN <<>>
    ELSE (IF docs[Head(order)].open THEN <<Head(order)>> ELSE <<>>)
         \o OpenFrom(docs, Tail(order))
AllDocuments == OpenFrom(documents, <<"u1", "u2">>)

\* documents.all().forEach(validateTextDocument)
RECURSIVE ValidateAll(_, _, _)
ValidateAll(uris, docs, st) ==
    IF uris = <<>> THEN st
    ELSE ValidateAll(Tail(uris), docs, validateTextDocument(Head(uris), docs[Head(uris)], st))

\* documents.all().forEach(triggerValidation)
RECURSIVE TriggerAll(_, _)
TriggerAll(uris, st) ==
    IF uris = <<>> THEN st ELSE TriggerAll(Tail(uris), triggerValidation(Head(uris), st))

\* documents.onDidChangeContent: the manager holds the new content (the
\* document just opened, or changed) and validation is triggered.
DidChangeContent(uri, doc) ==
    /\ doc.open
    /\ Len(timers) < MaxTimers
    /\ documents' = [documents EXCEPT ![uri] = doc]
    /\ Becomes(triggerValidation(uri, Here))
    /\ UNCHANGED <<wvars, cvars, hvars>>

\* documents.onDidClose
DidClose(uri) ==
    /\ documents[uri].open
    /\ Len(sent) < MaxSent
    /\ documents' = [documents EXCEPT ![uri] = NoDoc]
    /\ LET cleaned == cleanPendingValidation(uri, Here)
       IN  Becomes([cleaned EXCEPT !.sent = Append(@, Sent(uri, <<>>, NoDoc, 0))])
    /\ UNCHANGED <<wvars, cvars, hvars>>

\* The timer callback set by triggerValidation, for the timer of handle id.
TimerFired(id) ==
    /\ id \in 1..Len(timers)
    /\ timers[id].state = "set"
    /\ Len(sent) + Len(inflight) < MaxSent
    /\ LET uri == timers[id].uri
           fired == [Here EXCEPT !.timers[id].state = "fired",
                                 !.pendingValidationRequests[uri] = NoTimer]
       IN  Becomes(validateTextDocument(uri, documents[uri], fired))
    /\ UNCHANGED <<documents, wvars, cvars, hvars>>

\* The then-callback of the doValidation promise of run i.  Runs that wait for
\* the same schema fetch resolve in the order they were started.
ValidationDone(i) ==
    /\ i \in 1..Len(inflight)
    /\ \A k \in 1..(i - 1) : inflight[k].fetch # inflight[i].fetch
    /\ sent' = Append(sent, Sent(inflight[i].uri,
                                 DiagnosticsToSend(inflight[i].diagnosticResults),
                                 inflight[i].of, inflight[i].run))
    /\ inflight' = [k \in 1..(Len(inflight) - 1) |->
                       IF k < i THEN inflight[k] ELSE inflight[k + 1]]
    /\ UNCHANGED <<documents, pendingValidationRequests, timers, schemaCache,
                   wvars, cvars, hvars>>

\* connection.onDidChangeWatchedFiles: resetSchema for every change, and all
\* open documents validated when one of the calls reported an eviction.
RECURSIVE ResetAll(_, _, _)
ResetAll(changes, cache, resets) ==
    IF changes = <<>> THEN [cache |-> cache, resets |-> resets]
    ELSE LET r == resetSchema(Head(changes), cache)
         IN  ResetAll(Tail(changes), r.cache,
                      Append(resets, [uri |-> Head(changes), evicted |-> r.evicted]))

HasChanges_lastOnly(resets) == resets # <<>> /\ resets[Len(resets)].evicted
HasChanges(resets) == \E i \in 1..Len(resets) : resets[i].evicted

NoWatched == [made |-> FALSE]
DidChangeWatchedFiles(changes) ==
    /\ Len(sent) + Len(inflight) + Len(AllDocuments) <= MaxSent
    /\ LET reset == ResetAll(changes, schemaCache, <<>>)
           hasChanges == HasChanges(reset.resets)
           evicted == [Here EXCEPT !.schemaCache = reset.cache]
           after == IF hasChanges
                    THEN ValidateAll(AllDocuments, documents, evicted)
                    ELSE evicted
       IN  /\ Becomes(after)
           /\ wLast' = [made |-> TRUE, changes |-> changes, resets |-> reset.resets,
                        all |-> AllDocuments,
                        validated |-> IF hasChanges THEN AllDocuments ELSE <<>>,
                        started |-> RunsStarted(after) - RunsStarted(Here)]
    /\ UNCHANGED <<documents, yamlShouldHover, qCall, cvars, hvars>>

\* ------------------------------------------------------ completion handler
NoReq == [uri |-> "none"]
NoCall == [made |-> FALSE]

\* The position object doComplete receives: textDocumentPosition.position,
\* read after completionHelper has run on that same object.
HandedPosition_copy(pos, completionFix) == pos
HandedPosition(pos, completionFix) == completionFix.argPosition

\* connection.onCompletion
OnCompletion(uri, pos) ==
    /\ cReq' = [uri |-> uri, position |-> pos]
    /\ LET textDocument == documents[uri]
       IN  IF ~textDocument.open
           THEN cReply' = "emptyList" /\ cCall' = NoCall
           ELSE IF ~isSupportedDocument(textDocument)
           THEN cReply' = "undefined" /\ cCall' = NoCall
           ELSE LET completionFix == completionHelper(textDocument.text, pos)
                IN  /\ cReply' = "doComplete"
                    /\ cCall' = [made |-> TRUE,
                                 newText |-> completionFix.newText,
                                 position |-> HandedPosition(pos, completionFix),
                                 jsonDocument |-> parseYAML(completionFix.newText, NoTags)]
    /\ UNCHANGED <<documents, vvars, wvars, hvars>>

\* connection.onHover and connection.onDocumentSymbol: what the handler
\* answers, and the tree it hands to doHover or findDocumentSymbols.
NoQuery == [handler |-> "none"]
Query(handler, uri, reply) == [handler |-> handler, uri |-> uri, reply |-> reply]

OnHover(uri, pos) ==
    /\ LET document == documents[uri]
       IN  qCall' =
               IF ~document.open THEN Query("hover", uri, "undefined")
               ELSE IF ~isSupportedDocument(document) THEN Query("hover", uri, "undefined")
               ELSE [handler |-> "hover", uri |-> uri, reply |-> "doHover",
                     text |-> document.text, position |-> pos,
                     jsonDocument |-> parseYAML(document.text, NoTags)]
    /\ UNCHANGED <<documents, vvars, wLast, yamlShouldHover, cvars, hvars>>

OnDocumentSymbol(uri) ==
    /\ LET document == documents[uri]
       IN  qCall' =
               IF ~document.open THEN Query("symbols", uri, "undefined")
               ELSE IF ~isSupportedDocument(document) THEN Query("symbols", uri, "undefined")
               ELSE [handler |-> "symbols", uri |-> uri, reply |-> "findDocumentSymbols",
                     text |-> document.text,
                     jsonDocument |-> parseYAML(document.text, NoTags)]
    /\ UNCHANGED <<documents, vvars, wLast, yamlShouldHover, cvars, hvars>>

\* -------------------------------------------------------------- syntax tree
\* A YAML document as parsed: nested node records, a node being addressed by
\* the child indices that lead to it from the root (its parent is the address
\* without its last index).  The documents are flow mappings nested along one
\* spine, {K1:{K2:...}}; each key, scalar, brace, colon and comma takes one
\* offset.  The mapping of level i may declare one more property before its
\* spine key (decls[i]), and the innermost value is the leaf.
Null == "null"
\* A string-valued slot that holds no string: getValue() of a node without one,
\* and undefined where the source has string | void.
NoValue == <<"null">>
UndefStr == <<"undefined">>
\* The location of item i of a sequence is the number i; written apart from
\* the keys, which are strings ("0" is a key, Index(0) the number 0).
Index(i) == <<"#0", "#1">>[i + 1]
AwsPrefix == <<"A", "W", "S", ":", ":">>
Digit(i) == <<"0", "1", "2", "3", "4", "5", "6", "7", "8", "9">>[i + 1]
AwsValue(i) == AwsPrefix \o <<Digit(i)>>
OtherValue(i) == <<"x">> \o AwsPrefix \o <<Digit(i)>>

Scalar(s, loc, val) ==
    [type |-> "string", start |-> s, end |-> s + 1, location |-> loc,
     value |-> val, children |-> <<>>]
Number(s, loc, digits) ==
    [type |-> "number", start |-> s, end |-> s + 1, location |-> loc,
     value |-> digits, children |-> <<>>]

\* key: value as a property node, the value spanning [vStart, vEnd); the key
\* node's location is the key itself.
Property(key, vStart, vEnd, valueNode) ==
    [type |-> "property", start |-> vStart - 2, end |-> vEnd,
     location |-> Null, value |-> NoValue,
     children |-> <<Scalar(vStart - 2, key, <<key>>), valueNode>>]

\* The innermost value, placed at offset s as the value of key loc.
\* The array is [v, w], the object an empty mapping.
LeafWidth(kind) == CASE kind = "scalar" -> 1 [] kind = "object" -> 5 [] kind = "array" -> 6
Leaf(kind, s, loc) ==
    CASE kind = "scalar" -> Scalar(s, loc, <<"v">>)
      [] kind = "object" ->
            [type |-> "object", start |-> s, end |-> s + 5, location |-> loc,
             value |-> NoValue, children |-> <<>>]
      [] kind = "array" ->
            [type |-> "array", start |-> s, end |-> s + 6, location |-> loc,
             value |-> NoValue, children |-> <<Scalar(s + 1, Index(0), <<"v">>),
                            Scalar(s + 4, Index(1), <<"w">>)>>]

\* The property a mapping declares before its spine key, at offset s.
DeclProperty(decl, i, s) ==
    CASE decl = "aws"    -> Property("Type", s + 2, s + 3, Scalar(s + 2, "Type", AwsValue(i)))
      [] decl = "custom" -> Property("Type", s + 2, s + 3, Scalar(s + 2, "Type", OtherValue(i)))
      [] decl = "other"  -> Property("Kind", s + 2, s + 3, Scalar(s + 2, "Kind", AwsValue(i)))
      [] decl = "number" -> Property("Type", s + 2, s + 3, Number(s + 2, "Type", <<Digit(i)>>))

\* The number of offsets the mapping of level i takes, braces included.
RECURSIVE ObjectWidth(_, _)
ObjectWidth(shape, i) ==
    (IF shape.decls[i] = "none" THEN 4 ELSE 8)
    + (IF i = Len(shape.keys) THEN LeafWidth(shape.leaf) ELSE ObjectWidth(shape, i + 1))

RECURSIVE ObjectNode(_, _, _, _)
ObjectNode(shape, i, s, loc) ==
    LET decl   == shape.decls[i]
        vStart == IF decl = "none" THEN s + 3 ELSE s + 7
        vEnd   == s + ObjectWidth(shape, i) - 1
        key    == shape.keys[i]
        spine  == Property(key, vStart, vEnd,
                           IF i = Len(shape.keys)
                           THEN Leaf(shape.leaf, vStart, key)
                           ELSE ObjectNode(shape, i + 1, vStart, key))
    IN  [type |-> "object", start |-> s, end |-> vEnd + 1,
         location |-> loc, value |-> NoValue,
         children |-> IF decl = "none" THEN <<spine>>
                      ELSE <<DeclProperty(decl, i, s + 1), spine>>]

\* parse(text): the document's root node, or none for an empty document.
NoRoot == [type |-> "none"]
ParseTree(shape) ==
    IF Len(shape.keys) = 0 THEN NoRoot ELSE ObjectNode(shape, 1, 0, Null)

RECURSIVE NodeAt(_, _)
NodeAt(node, addr) ==
    IF addr = <<>> THEN node ELSE NodeAt(node.children[Head(addr)], Tail(addr))

Front(addr) == SubSeq(addr, 1, Len(addr) - 1)

\* node.getPath(): the locations from the root down to the node, nulls left out.
RECURSIVE getPath(_, _)
getPath(root, addr) ==
    LET here == NodeAt(root, addr).location
        up   == IF addr = <<>> THEN <<>> ELSE getPath(root, Front(addr))
    IN  IF here = Null THEN up ELSE Append(up, here)

\* getNodeFromOffset(offset): the address of the most specific node whose
\* interval [start, end) holds the offset, children tried in order; NoNode
\* when the node's interval does not hold it.
NoNode == <<-1>>
RECURSIVE FindNode(_, _, _, _)
RECURSIVE FindInChildren(_, _, _, _)
FindInChildren(root, addr, offset, i) ==
    LET children == NodeAt(root, addr).children
    IN  IF i <= Len(children) /\ children[i].start <= offset
        THEN LET item == FindNode(root, Append(addr, i), offset, 1)
             IN  IF item # NoNode THEN item
                 ELSE FindInChildren(root, addr, offset, i + 1)
        ELSE addr
FindNode(root, addr, offset, i) ==
    LET node == NodeAt(root, addr)
    IN  IF offset >= node.start /\ offset < node.end
        THEN FindInChildren(root, addr, offset, 1)
        ELSE NoNode
getNodeFromOffset(root, offset) == FindNode(root, <<>>, offset, 1)

\* matchOffsetToDocument(offset, doc): the document whose root spans the offset.
matchOffsetToDocument(offset, root) ==
    root.type # "none" /\ root.start <= offset /\ offset <= root.end

\* -------------------------------------------------------------------- hover
\* s.indexOf(needle) === 0
StartsWith(s, needle) ==
    Len(s) >= Len(needle) /\ SubSeq(s, 1, Len(needle)) = needle

\* value.getValue() is truthy: a non-empty string, a number other than 0, or
\* the object or array an object or array node stands for.
TruthyValue(valueNode) ==
    CASE valueNode.type = "string" -> valueNode.value # <<>>
      [] valueNode.type = "number" -> valueNode.value # <<"0">>
      [] valueNode.type \in {"object", "array"} -> TRUE
      [] OTHER -> FALSE

\* children.find(...) of the inner getResourceName: the value of the first
\* property child keyed Type whose value starts with AWS::, else undefined.
\* resourceTypeValue.indexOf is called on whatever truthy value getValue()
\* gave: on a number or an object it is not a function, and the call throws.
TypeError == <<"TypeError">>
RECURSIVE FindType(_, _)
FindType(children, i) ==
    IF i > Len(children) THEN UndefStr
    ELSE LET child == children[i]
             keyed == /\ child.type = "property"
                      /\ child.children[1].location = "Type"
                      /\ Len(child.children) = 2
                      /\ TruthyValue(child.children[2])
         IN  IF keyed /\ child.children[2].type \in {"number", "object"}
             THEN TypeError
             ELSE IF keyed /\ child.children[2].type = "string"
                           /\ StartsWith(child.children[2].value, AwsPrefix)
             THEN child.children[2].value
             ELSE FindType(children, i + 1)

\* The inner getResourceName(targetNode)
ResourceNameOf(targetNode) ==
    IF targetNode.type # "object" THEN UndefStr ELSE FindType(targetNode.children, 1)

maxDepth == 7

\* The while loop of getResourceName: resourceName so far, currentNode given
\* by its address (hasNode false once the parent of the root was taken), depth.
RECURSIVE ResourceNameLoop(_, _, _, _, _)
ResourceNameLoop(root, resourceName, hasNode, currentNode, depth) ==
    IF resourceName = UndefStr /\ hasNode /\ depth < maxDepth
    THEN ResourceNameLoop(root,
                          ResourceNameOf(NodeAt(root, currentNode)),
                          currentNode # <<>>,
                          IF currentNode # <<>> THEN Front(currentNode) ELSE <<>>,
                          depth + 1)
    ELSE resourceName

\* YAMLHover.getResourceName(node)
PathInResources(path) == Len(path) >= 1 /\ path[1] = "Resources" /\ Len(path) > 1

getResourceName(root, node) ==
    IF PathInResources(getPath(root, node))
    THEN ResourceNameLoop(root, ResourceNameOf(NodeAt(root, node)),
                          node # <<>>, IF node # <<>> THEN Front(node) ELSE <<>>, 0)
    ELSE UndefStr

\* YAMLHover.getPropertyName(node): <<path[3]>>, or <<>> for undefined.
NoName == <<>>
getPropertyName(root, node) ==
    LET path == getPath(root, node)
    IN  IF Len(path) >= 4 /\ path[1] = "Resources" /\ path[3] = "Properties"
        THEN <<path[4]>> ELSE NoName

\* if (propertyName): undefined, the empty key and the index 0 are falsy.
TruthyName(propertyName) ==
    propertyName # NoName /\ propertyName[1] \notin {"", Index(0)}

\* String(propertyName): a key is itself, an index its decimal digits.
String(location) ==
    CASE location = Index(0) -> "0"
      [] location = Index(1) -> "1"
      [] OTHER -> location

\* The node test of doHover: an object or array hit strictly inside its body.
InsideBody_objectOnly(node, offset) ==
    node.type = "object" /\ offset > node.start + 1 /\ offset < node.end - 1
InsideBody(node, offset) ==
    /\ node.type = "object" \/ node.type = "array"
    /\ offset > node.start + 1
    /\ offset < node.end - 1

Absent == [hover |-> FALSE, error |-> FALSE]
Threw == [hover |-> FALSE, error |-> TRUE]
HoverOut(result, schemaCalls, lookups) ==
    [result |-> result, schemaCalls |-> schemaCalls, lookups |-> lookups]

\* if (markdown): undefined and the empty string are both no documentation.
HasMarkdown(markdown) == markdown # UndefStr /\ markdown # <<>>

\* The part of doHover from the path test up to the documentation lookup, for
\* the node at address node: the lookup it asks for (none, one, or the call
\* fails inside getResourceName).
DescribeNode(root, node) ==
    LET resourceType == getResourceName(root, node)
        propertyName == getPropertyName(root, node)
        lookup == IF TruthyName(propertyName)
                  THEN [kind |-> "property", resourceType |-> resourceType,
                        propertyName |-> String(propertyName[1])]
                  ELSE [kind |-> "resource", resourceType |-> resourceType]
    IN  IF Len(getPath(root, node)) >= 2 /\ resourceType = TypeError
        THEN HoverOut(Threw, 1, <<>>)
        ELSE IF Len(getPath(root, node)) >= 2 /\ resourceType # UndefStr
        THEN HoverOut(Absent, 1, <<lookup>>)
        ELSE HoverOut(Absent, 1, <<>>)

\* if (markdown) return createHover([markdown], hoverRange)
createHover(root, node, markdown) ==
    LET n == NodeAt(root, node)
        hoverRange == [start |-> n.start, end |-> n.end]
    IN  IF HasMarkdown(markdown)
        THEN [hover |-> TRUE, error |-> FALSE,
              contents |-> <<markdown>>, range |-> hoverRange]
        ELSE Absent

\* schemaService.getSchemaForResource(document.uri), by how the resolution
\* went: a binding matched and its schema was obtained, no binding matched, or
\* the matching binding's schema could not be fetched.  Only the first yields
\* a schema; the result is whether one was yielded.
SchemaOutcomes == {"resolved", "unbound", "fetchFailed"}
getSchemaForResource(outcome) == outcome = "resolved"

\* if (!schema)
SchemaMissing_unboundOnly(outcome) == outcome = "unbound"
SchemaMissing(outcome) == ~getSchemaForResource(outcome)

\* YAMLHover.doHover(document, position, doc) is asynchronous: it runs up to
\* its first await, and is resumed when the schema resolution and then the
\* documentation lookup complete; other handlers run in between.  hPc is where
\* the call followed stands.  doHover reads and writes nothing that another
\* doHover call writes, so one call is followed at a time.
Pending == "pending"
NoAnswer == <<"pending">>
NoHoverReq == [document |-> FALSE, called |-> FALSE]
NoHoverOut == HoverOut(Absent, 0, <<>>)

\* The call as recorded: its inputs, what the configure calls before it came
\* to, and how its two awaits went once they have completed.
Call(req) ==
    IF req.document
    THEN [document |-> TRUE, called |-> TRUE, offset |-> req.offset,
          toldOff |-> toldOff, schema |-> Pending, answer |-> NoAnswer]
    ELSE [document |-> FALSE, called |-> TRUE, toldOff |-> toldOff]

\* The call, up to the first await.  req gives whether a document was passed
\* and the offset of the position; shouldHover is read here and not again.
DoHover(req) ==
    /\ hPc = "idle"
    /\ hReq' = Call(req)
    /\ IF ~shouldHover \/ ~req.document
       THEN hOut' = HoverOut(Absent, 0, <<>>) /\ hPc' = "settled"
       ELSE hOut' = HoverOut(Absent, 1, <<>>) /\ hPc' = "schema"
    /\ UNCHANGED <<documents, vvars, wvars, cvars, shouldHover, toldOff, hShape>>

\* The part of doHover between the two awaits, for a call at offset and a
\* schema resolution that went as outcome.
doHover(root, offset, outcome) ==
    IF SchemaMissing(outcome) THEN HoverOut(Absent, 1, <<>>)
    ELSE IF ~matchOffsetToDocument(offset, root) THEN HoverOut(Absent, 1, <<>>)
    ELSE LET node == getNodeFromOffset(root, offset)
         IN  IF node = NoNode \/ InsideBody(NodeAt(root, node), offset)
             THEN HoverOut(Absent, 1, <<>>)
             ELSE DescribeNode(root, node)

\* getSchemaForResource completes and the call runs on to its end or to the
\* documentation lookup.
SchemaResolved(outcome) ==
    /\ hPc = "schema"
    /\ hReq' = [hReq EXCEPT !.schema = outcome]
    /\ hOut' = doHover(ParseTree(hShape), hReq.offset, outcome)
    /\ hPc' = IF hOut'.lookups # <<>> THEN "documentation" ELSE "settled"
    /\ UNCHANGED <<documents, vvars, wvars, cvars, shouldHover, toldOff, hShape>>

\* The documentation lookup completes with markdown and the call returns.
DocumentationResolved(markdown) ==
    /\ hPc = "documentation"
    /\ hReq' = [hReq EXCEPT !.answer = markdown]
    /\ LET root == ParseTree(hShape)
       IN  hOut' = [hOut EXCEPT !.result =
                       createHover(root, getNodeFromOffset(root, hReq.offset), markdown)]
    /\ hPc' = "settled"
    /\ UNCHANGED <<documents, vvars, wvars, cvars, shouldHover, toldOff, hShape>>

\* The caller takes the promise's value.
HoverReturned ==
    /\ hPc = "settled"
    /\ hReq' = NoHoverReq
    /\ hOut' = NoHoverOut
    /\ hPc' = "idle"
    /\ UNCHANGED <<documents, vvars, wvars, cvars, shouldHover, toldOff, hShape>>

\* YAMLHover.configure(languageSettings): the value shouldHover has after it.
configure_falsyWithoutSettings(languageSettings, was) ==
    languageSettings.given /\ languageSettings.hover
configure(languageSettings, was) ==
    IF languageSettings.given THEN languageSettings.hover ELSE was

\* What a configure call makes of toldOff.
Told(languageSettings, was) ==
    IF languageSettings.given THEN ~languageSettings.hover ELSE was

\* A caller invokes configure, at any time: between doHover calls or while one
\* awaits.
Configure(languageSettings) ==
    /\ shouldHover' = configure(languageSettings, shouldHover)
    /\ toldOff' = Told(languageSettings, toldOff)
    /\ UNCHANGED <<documents, vvars, wvars, cvars, hShape, hReq, hOut, hPc>>

\* ------------------------------------------------------------ configuration
\* connection.onDidChangeConfiguration, for settings whose serverlessIDE part,
\* when present, has validate and completion on: the hover setting taken over,
\* the language service configured with it, and validation triggered for every
\* open document (updateConfiguration).
DidChangeConfiguration(settings) ==
    /\ Len(timers) + Len(AllDocuments) <= MaxTimers
    /\ yamlShouldHover' = IF settings.serverlessIDE THEN settings.hover ELSE yamlShouldHover
    /\ LET languageSettings == [given |-> TRUE, hover |-> yamlShouldHover']
       IN  /\ shouldHover' = configure(languageSettings, shouldHover)
           /\ toldOff' = Told(languageSettings, toldOff)
    /\ Becomes(TriggerAll(AllDocuments, Here))
    /\ UNCHANGED <<documents, wLast, qCall, cvars, hShape, hReq, hOut, hPc>>

\* ----------------------------------------------------------- specifications
NoShape == [keys |-> <<>>, decls |-> <<>>, leaf |-> "scalar"]
HoverQuiet ==
    /\ shouldHover = TRUE /\ toldOff = FALSE
    /\ hShape = NoShape /\ hReq = NoHoverReq /\ hOut = NoHoverOut
    /\ hPc = "idle"
DocumentsClosed == documents = [u \in URIs |-> NoDoc]
NoRequests == [u \in URIs |-> NoTimer]
ValidationQuiet ==
    /\ pendingValidationRequests = NoRequests /\ timers = <<>>
    /\ inflight = <<>> /\ sent = <<>>
    /\ schemaCache = NoSchemaCached
ServerQuiet == wLast = NoWatched /\ yamlShouldHover = TRUE /\ qCall = NoQuery
CompletionQuiet == cReq = NoReq /\ cReply = "none" /\ cCall = NoCall

\* Completion: one open document of any text within the bound, classified
\* either way, and any request for it or for a uri that is not open.  The
\* opening went through onDidChangeContent, which set the document's
\* validation timer.
CompletionDocs ==
    {[open |-> TRUE, text |-> t, supported |-> s, problems |-> <<>>] :
        t \in TextsUpTo(MaxLen), s \in BOOLEAN}

InitCompletion ==
    /\ \E d \in CompletionDocs : documents = [u \in URIs |-> IF u = "u1" THEN d ELSE NoDoc]
    /\ pendingValidationRequests = [NoRequests EXCEPT !["u1"] = 1]
    /\ timers = <<Timer("u1")>>
    /\ inflight = <<>>
    /\ sent = <<>>
    /\ schemaCache = NoSchemaCached
    /\ ServerQuiet
    /\ CompletionQuiet
    /\ HoverQuiet

NextCompletion ==
    \E uri \in URIs :
        \E pos \in (IF documents[uri].open THEN Positions(documents[uri].text)
                     ELSE {[line |-> 0, character |-> 0]}) : OnCompletion(uri, pos)

SpecCompletion == InitCompletion /\ [][NextCompletion]_vars

\* Validation: one document just opened (its timer set), with any problem list
\* within the bound; it is re-sent unchanged, validated and closed.
ValidationDocs ==
    {[open |-> TRUE, text |-> <<>>, supported |-> s, problems |-> <<>>] : s \in BOOLEAN}
    \cup {[open |-> TRUE, text |-> <<"a">>, supported |-> FALSE, problems |-> <<>>]}
    \cup {[open |-> TRUE, text |-> <<"a">>, supported |-> TRUE, problems |-> p] :
            p \in ProblemLists(MaxDiags)}

InitValidation ==
    /\ \E d \in ValidationDocs : documents = [u \in URIs |-> IF u = "u1" THEN d ELSE NoDoc]
    /\ pendingValidationRequests = [NoRequests EXCEPT !["u1"] = 1]
    /\ timers = <<Timer("u1")>>
    /\ inflight = <<>>
    /\ sent = <<>>
    /\ schemaCache = NoSchemaCached
    /\ ServerQuiet
    /\ CompletionQuiet
    /\ HoverQuiet

NextValidation ==
    \/ \E uri \in URIs : documents[uri].open /\ DidChangeContent(uri, documents[uri])
    \/ \E id \in 1..MaxTimers : TimerFired(id)
    \/ \E i \in 1..MaxSent : ValidationDone(i)
    \/ \E uri \in URIs : DidClose(uri)

SpecValidation == InitValidation /\ [][NextValidation]_vars

\* Scheduling: one or two documents just opened, in the order u1, u2, each
\* with its timer set; they are re-sent unchanged and closed, timers fire and
\* validation runs end, watched files change and the configuration changes.
OneProblem(r) == <<[range |-> r, message |-> "m1", severity |-> 2]>>
ScheduleDocs1 ==
    {[open |-> TRUE, text |-> <<"a">>, supported |-> TRUE, problems |-> OneProblem("r1")],
     [open |-> TRUE, text |-> <<"a">>, supported |-> FALSE, problems |-> <<>>],
     [open |-> TRUE, text |-> <<>>, supported |-> TRUE, problems |-> <<>>]}
ScheduleDocs2 ==
    {NoDoc,
     [open |-> TRUE, text |-> <<"a">>, supported |-> TRUE, problems |-> OneProblem("r2")]}

WatchedURIs == {SchemaUri, "f1"}
WatchedChanges == UNION {[1..k -> WatchedURIs] : k \in 1..2}
Settings ==
    {[serverlessIDE |-> FALSE]} \cup
    {[serverlessIDE |-> TRUE, hover |-> h] : h \in BOOLEAN}

InitSchedule ==
    /\ \E d1 \in ScheduleDocs1, d2 \in ScheduleDocs2 :
          /\ documents = [u \in URIs |-> IF u = "u1" THEN d1 ELSE d2]
          /\ pendingValidationRequests =
                 [u \in URIs |-> IF u = "u1" THEN 1 ELSE IF d2.open THEN 2 ELSE NoTimer]
          /\ timers = IF d2.open THEN <<Timer("u1"), Timer("u2")>> ELSE <<Timer("u1")>>
    /\ inflight = <<>>
    /\ sent = <<>>
    /\ schemaCache = NoSchemaCached
    /\ ServerQuiet
    /\ CompletionQuiet
    /\ HoverQuiet

NextSchedule ==
    \/ \E uri \in URIs : documents[uri].open /\ DidChangeContent(uri, documents[uri])
    \/ \E id \in 1..MaxTimers : TimerFired(id)
    \/ \E i \in 1..MaxSent : ValidationDone(i)
    \/ \E uri \in URIs : DidClose(uri)
    \/ \E changes \in WatchedChanges : DidChangeWatchedFiles(changes)
    \/ \E settings \in Settings : DidChangeConfiguration(settings)

SpecSchedule == InitSchedule /\ [][NextSchedule]_vars

\* Queries: one document just opened whose text may hold tags, a listed one
\* and an unlisted one; it is validated and asked for completion, hover and
\* symbols.
QueryValues == UNION {[1..k -> {"v", SP, "!Ref", "!Foo"}] : k \in 1..2}
QueryTexts == {key \o value : key \in {<<>>, <<"k", COLON, SP>>}, value \in QueryValues}
QueryDocs ==
    {[open |-> TRUE, text |-> t, supported |-> s, problems |-> <<>>] :
        t \in QueryTexts, s \in BOOLEAN}

InitQueries ==
    /\ \E d \in QueryDocs : documents = [u \in URIs |-> IF u = "u1" THEN d ELSE NoDoc]
    /\ pendingValidationRequests = [NoRequests EXCEPT !["u1"] = 1]
    /\ timers = <<Timer("u1")>>
    /\ inflight = <<>>
    /\ sent = <<>>
    /\ schemaCache = NoSchemaCached
    /\ ServerQuiet
    /\ CompletionQuiet
    /\ HoverQuiet

NextQueries ==
    \/ \E id \in 1..MaxTimers : TimerFired(id)
    \/ \E i \in 1..MaxSent : ValidationDone(i)
    \/ \E uri \in URIs :
          \E pos \in (IF documents[uri].open THEN Positions(documents[uri].text)
                       ELSE {[line |-> 0, character |-> 0]}) : OnCompletion(uri, pos)
    \/ \E uri \in URIs :
          \E pos \in (IF documents[uri].open THEN Positions(documents[uri].text)
                       ELSE {[line |-> 0, character |-> 0]}) : OnHover(uri, pos)
    \/ \E uri \in URIs : OnDocumentSymbol(uri)

SpecQueries == InitQueries /\ [][NextQueries]_vars

\* Hover: a fresh hover engine and any document shape within the bounds; the
\* engine is configured and asked to hover at any offset of the document.
SpineKey(i) ==
    CASE i = 1 -> "Resources"
      [] i = 2 -> "MyBucket"
      [] i = 3 -> "Properties"
      [] i = 4 -> "BucketName"
      [] OTHER -> "Nested"
\* The keys a level may have in place of its usual one.
OtherKeys(i) ==
    CASE i = 1 -> {"Outputs"}
      [] i = 3 -> {"Metadata"}
      [] i = 4 -> {"", "undefined"}
      [] OTHER -> {}
Decls == {"none", "aws", "custom", "other", "number"}
Leaves == {"scalar", "object", "array"}
\* The declarations of a document of n levels: none, or one mapping declaring
\* a property of any kind, alone or with another mapping that declares an AWS
\* type.
DeclPlacements(n) ==
    {[i \in 1..n |-> "none"]} \cup
    {[i \in 1..n |-> IF i = lower THEN kind
                     ELSE IF i = upper THEN "aws" ELSE "none"] :
        lower \in 1..n, upper \in 0..n, kind \in Decls \ {"none"}}
\* ... and those of a document with an unusual key: none, or one mapping
\* declaring a property of any kind.
SinglePlacements(n) ==
    {[i \in 1..n |-> IF i = at THEN kind ELSE "none"] :
        at \in 0..n, kind \in Decls \ {"none"}}
\* The spines: the usual keys, or one level with another key.
UsualKeys(n) == [i \in 1..n |-> SpineKey(i)]
UnusualKeys(n) ==
    UNION {{[UsualKeys(n) EXCEPT ![i] = k] : k \in OtherKeys(i)} : i \in 1..n}
Shapes ==
    UNION {{[keys |-> UsualKeys(n), decls |-> d, leaf |-> l] :
                d \in DeclPlacements(n), l \in Leaves}
           \cup
           {[keys |-> k, decls |-> d, leaf |-> l] :
                k \in UnusualKeys(n), d \in SinglePlacements(n), l \in Leaves}
           : n \in 0..MaxLevels}

Answers == {UndefStr, <<>>, <<"m", "d">>}
\* The calls made: without a document, or with one and any offset of its text.
HoverRequests ==
    LET root == ParseTree(hShape)
        last == IF root.type = "none" THEN 0 ELSE root.end
    IN  {[document |-> FALSE]} \cup
        {[document |-> TRUE, offset |-> o] : o \in 0..last}
LanguageSettings ==
    {[given |-> FALSE]} \cup {[given |-> TRUE, hover |-> h] : h \in BOOLEAN}

InitHover ==
    /\ DocumentsClosed
    /\ ValidationQuiet
    /\ ServerQuiet
    /\ CompletionQuiet
    /\ shouldHover = TRUE
    /\ toldOff = FALSE
    /\ hShape \in Shapes
    /\ hReq = NoHoverReq
    /\ hOut = NoHoverOut
    /\ hPc = "idle"

NextHover ==
    \/ \E req \in HoverRequests : DoHover(req)
    \/ \E outcome \in SchemaOutcomes : SchemaResolved(outcome)
    \/ \E markdown \in Answers : DocumentationResolved(markdown)
    \/ HoverReturned
    \/ \E ls \in LanguageSettings : Configure(ls)

SpecHover == InitHover /\ [][NextHover]_vars

\* ------------------------------------------------------- validation claims
\* C1: every diagnostic of every list published has severity 1 (error),
\* whatever severity the validation service gave it.
C1_PublishedSeverityIsError ==
    \A i \in 1..Len(sent) :
        \A j \in 1..Len(sent[i].diagnostics) : sent[i].diagnostics[j].severity = 1

C1_Witness ==
    \E i \in 1..Len(sent) :
        /\ sent[i].of.open
        /\ Len(sent[i].diagnostics) > 0
        /\ \A j \in 1..Len(sent[i].of.problems) : sent[i].of.problems[j].severity > 1

SameRangeAndMessage(a, b) == a.range = b.range /\ a.message = b.message

\* C2: no published list holds two entries with the same range and message,
\* and two runs over the same document content publish the same list.
C2_NoDuplicatesAndIdempotent ==
    /\ \A i \in 1..Len(sent) :
          \A a, b \in 1..Len(sent[i].diagnostics) :
              a # b => ~SameRangeAndMessage(sent[i].diagnostics[a], sent[i].diagnostics[b])
    /\ \A i, j \in 1..Len(sent) :
          (sent[i].of.open /\ sent[i].uri = sent[j].uri /\ sent[i].of = sent[j].of)
              => sent[i].diagnostics = sent[j].diagnostics

C2_Witness ==
    \E i, j \in 1..Len(sent) :
        /\ i < j
        /\ sent[i].of.open /\ sent[i].uri = sent[j].uri /\ sent[i].of = sent[j].of
        /\ Len(sent[i].of.problems) = 2
        /\ SameRangeAndMessage(sent[i].of.problems[1], sent[i].of.problems[2])
        /\ sent[i].of.problems[1].severity # sent[i].of.problems[2].severity
        /\ Len(sent[j].diagnostics) = 1

\* ------------------------------------------------------- completion claims
\* The cursor line of the last answered request, by the document's line table.
CText == documents[cReq.uri].text
CPos == cReq.position
CLine == LineContent(CText, CPos.line)
CAnswered == cReply = "doComplete"
CTrimmedEmptyOrDash == Trim(CLine) = <<>> \/ Trim(CLine) = <<DASH>>

\* C3: when the cursor's line contains ':', the text completionHelper returns
\* (the text that is parsed for doComplete) is exactly the document text.
C3_RepairIsNoOpOnColonLine ==
    (CAnswered /\ HasChar(CLine, COLON)) => cCall.newText = CText

C3_Witness ==
    /\ CAnswered /\ HasChar(CLine, COLON)
    /\ Len(getLineOffsets(CText)) >= 2
    /\ cCall.newText = CText

\* C4: when the cursor's line has no ':' and its trimmed content is empty or
\* exactly '-', the returned text is the original up to the end of the cursor
\* line's content, then 'holder:' (after one space when the line is a bare '-'
\* with no trailing space) and its line terminator, then the rest of the
\* document from the next line on.
C4_HolderSplicedAtCursorLine ==
    (CAnswered /\ ~HasChar(CLine, COLON) /\ CTrimmedEmptyOrDash) =>
        cCall.newText =
            SubSeq(CText, 1, LineEnd(CText, CPos.line))
            \o (IF Trim(CLine) = <<DASH>> /\ ~EndsWithSpace(CLine) THEN <<SP>> ELSE <<>>)
            \o Holder
            \o Substr(CText, NextLineStart(CText, CPos.line))

\* C5 as claimed: when the cursor's line has no ':' and its trimmed content is
\* neither empty nor '-', the returned text is the original text with a single
\* ':' inserted at the end of the line's content and nothing else inserted.
C5_OnlyColonInserted ==
    (CAnswered /\ ~HasChar(CLine, COLON) /\ ~CTrimmedEmptyOrDash) =>
        cCall.newText =
            SubSeq(CText, 1, LineEnd(CText, CPos.line))
            \o <<COLON>>
            \o Substr(CText, LineEnd(CText, CPos.line))

\* C5 as amended: in that case the returned text is the original up to the end
\* of the line's content (trailing blanks included), then ':' and a CR LF that
\* takes the place of the line's own terminator (and is added when the line
\* had none), then the rest of the document from the next line on.
C5_ColonAndCRLFSpliced ==
    (CAnswered /\ ~HasChar(CLine, COLON) /\ ~CTrimmedEmptyOrDash) =>
        cCall.newText =
            SubSeq(CText, 1, LineEnd(CText, CPos.line))
            \o <<COLON, CR, LF>>
            \o Substr(CText, NextLineStart(CText, CPos.line))

C5_Witness ==
    /\ CAnswered /\ ~HasChar(CLine, COLON) /\ ~CTrimmedEmptyOrDash
    /\ EndsWithSpace(CLine)
    /\ LineEnd(CText, CPos.line) < Len(CText)
    /\ CText[LineEnd(CText, CPos.line) + 1] = LF
    /\ Len(cCall.newText) = Len(CText) + 2

\* C6: the position doComplete receives is the request position moved one
\* character left on the same line when the cursor's line contains ':', and
\* the request position itself when it does not.
C6_HandedPosition ==
    CAnswered =>
        cCall.position =
            IF HasChar(CLine, COLON)
            THEN [line |-> CPos.line, character |-> CPos.character - 1]
            ELSE CPos

C6_Witness ==
    /\ CAnswered /\ HasChar(CLine, COLON)
    /\ CPos.character >= 1
    /\ cCall.position = [line |-> CPos.line, character |-> CPos.character - 1]

\* ------------------------------------------------------------ hover claims
\* Whether the doHover call followed has returned, and had a document whose
\* tree spans the offset.  In the formulas below root is the tree the call was
\* given, node the address the offset resolves to, and path the path of that
\* node.
HSpanned ==
    /\ hReq.called /\ hReq.document /\ hPc = "settled"
    /\ matchOffsetToDocument(hReq.offset, ParseTree(hShape))
\* Whether hover was enabled when the call began and a schema was resolved.
HEnabled == ~hReq.toldOff /\ getSchemaForResource(hReq.schema)

StrictlyInside(n, offset) ==
    /\ n.type \in {"object", "array"}
    /\ n.start + 1 < offset
    /\ offset < n.end - 1

\* The resource type the spec gives a node: the Type value starting with AWS::
\* of the nearest object among the node and its first seven ancestors.
Ancestor(node, k) == SubSeq(node, 1, Len(node) - k)
AwsTypes(n) ==
    {i \in 1..Len(n.children) :
        /\ n.children[i].type = "property"
        /\ n.children[i].children[1].location = "Type"
        /\ n.children[i].children[2].type = "string"
        /\ Len(n.children[i].children[2].value) >= 5
        /\ SubSeq(n.children[i].children[2].value, 1, 5) = AwsPrefix}
Least(S) == CHOOSE k \in S : \A m \in S : k <= m
NearestType(root, node) ==
    LET declaring == {k \in 0..7 :
                         /\ k <= Len(node)
                         /\ NodeAt(root, Ancestor(node, k)).type = "object"
                         /\ AwsTypes(NodeAt(root, Ancestor(node, k))) # {}}
    IN  IF declaring = {} THEN UndefStr
        ELSE LET n == NodeAt(root, Ancestor(node, Least(declaring)))
             IN  n.children[Least(AwsTypes(n))].children[2].value
\* ... and none for a node outside Resources.
ResolvableType(root, node, path) ==
    IF Len(path) > 1 /\ path[1] = "Resources" THEN NearestType(root, node) ELSE UndefStr

\* C7: a call whose offset resolves to an object or array node and lies
\* strictly inside it (start+1 < offset < end-1) returns absent and makes no
\* documentation lookup.
C7_AbsentInsideContainerBody ==
    HSpanned =>
        LET root == ParseTree(hShape)
            node == getNodeFromOffset(root, hReq.offset)
        IN  (node # NoNode /\ StrictlyInside(NodeAt(root, node), hReq.offset))
                => (hOut.result = Absent /\ hOut.lookups = <<>>)

C7_Witness ==
    /\ HSpanned /\ HEnabled
    /\ LET root == ParseTree(hShape)
           node == getNodeFromOffset(root, hReq.offset)
       IN  /\ node # NoNode
           /\ NodeAt(root, node).type = "array"
           /\ StrictlyInside(NodeAt(root, node), hReq.offset)
           /\ ResolvableType(root, node, getPath(root, node)) # UndefStr
    /\ hOut.result = Absent

\* C8: for a node whose path starts with Resources and is longer than 1, the
\* resource type hover uses is the AWS::-prefixed Type value of the nearest
\* object among the node and at most 7 ancestors; there is none when no such
\* object declares one, and a Type value without the prefix does not stop the
\* search.
C8_NearestAwsType ==
    (HSpanned /\ HEnabled) =>
        LET root == ParseTree(hShape)
            node == getNodeFromOffset(root, hReq.offset)
            path == getPath(root, node)
            type == NearestType(root, node)
        IN  (/\ node # NoNode
             /\ ~StrictlyInside(NodeAt(root, node), hReq.offset)
             /\ Len(path) > 1 /\ path[1] = "Resources") =>
                /\ ~hOut.result.error
                /\ IF type = UndefStr
                   THEN hOut.lookups = <<>>
                   ELSE Len(hOut.lookups) = 1 /\ hOut.lookups[1].resourceType = type

\* C9: when a resource type is resolved, the lookup made is the property-level
\* one, keyed by the resource type and path[3], exactly when the path has
\* length >= 4, path[0] = Resources and path[2] = Properties; otherwise it is
\* the resource-level one, keyed by the resource type alone.
C9_LookupKind ==
    (hReq.called /\ hOut.lookups # <<>>) =>
        LET root == ParseTree(hShape)
            node == getNodeFromOffset(root, hReq.offset)
            path == getPath(root, node)
            type == NearestType(root, node)
        IN  hOut.lookups[1] =
                IF Len(path) >= 4 /\ path[1] = "Resources" /\ path[3] = "Properties"
                THEN [kind |-> "property", resourceType |-> type,
                      propertyName |-> String(path[4])]
                ELSE [kind |-> "resource", resourceType |-> type]

\* C10: a call returns absent, never an error, when no resource type is
\* resolvable for the node, when the node's path has fewer than 2 segments or
\* when the lookup yields nothing; it makes at most one lookup, and none when no
\* resource type is resolved.
C10_AbsentNotError ==
    hReq.called =>
        /\ ~hOut.result.error
        /\ Len(hOut.lookups) <= 1
        /\ (HSpanned /\ HEnabled) =>
              LET root == ParseTree(hShape)
                  node == getNodeFromOffset(root, hReq.offset)
                  path == getPath(root, node)
                  type == ResolvableType(root, node, path)
              IN  (node # NoNode /\ ~StrictlyInside(NodeAt(root, node), hReq.offset)) =>
                      /\ (\/ Len(path) < 2
                          \/ type = UndefStr
                          \/ ~HasMarkdown(hReq.answer)) => hOut.result = Absent
                      /\ type = UndefStr => hOut.lookups = <<>>

\* C11: a call for which schema resolution yields no schema, a failed fetch
\* included, returns absent, does not fail, and makes no documentation lookup.
C11_NoSchemaIsNoOp ==
    (hReq.called /\ hReq.document /\ hReq.schema \in {"unbound", "fetchFailed"}) =>
        /\ hOut.result = Absent
        /\ ~hOut.result.error
        /\ hOut.lookups = <<>>

C11_Witness ==
    /\ hReq.called /\ hReq.document /\ hPc = "settled"
    /\ hReq.schema = "fetchFailed"
    /\ LET root == ParseTree(hShape)
           node == getNodeFromOffset(root, hReq.offset)
       IN  /\ matchOffsetToDocument(hReq.offset, root)
           /\ node # NoNode
           /\ ~StrictlyInside(NodeAt(root, node), hReq.offset)
           /\ ResolvableType(root, node, getPath(root, node)) \notin {UndefStr, TypeError}
    /\ hOut = HoverOut(Absent, 1, <<>>)

\* C13: a doHover call given a document returns absent without resolving a
\* schema and without a documentation lookup exactly while the most recent
\* configure call that passed settings had hover = false; calls without
\* settings do not count, and before any call with settings hover is enabled.
C13_DisabledExactlyWhenToldOff ==
    (hReq.called /\ hReq.document) =>
        /\ (hOut.schemaCalls = 0) <=> toldOff
        /\ toldOff => (hOut.result = Absent /\ hOut.lookups = <<>>)

\* C13 as amended: a doHover call given a document returns absent at once,
\* without resolving a schema and without a documentation lookup, exactly when
\* the most recent configure call with settings made before the doHover call
\* began had hover = false (calls without settings do not count, and before
\* any call with settings hover is enabled); a configure call made while the
\* doHover call awaits changes nothing for that call.
C13_DisabledByCallTimeSetting ==
    /\ shouldHover <=> ~toldOff
    /\ (hReq.called /\ hReq.document) =>
          /\ (hOut.schemaCalls = 0) <=> hReq.toldOff
          /\ hReq.toldOff =>
                (hPc = "settled" /\ hOut.result = Absent /\ hOut.lookups = <<>>)

C13_Witness ==
    /\ hReq.called /\ hReq.document /\ hPc = "settled"
    /\ ~hReq.toldOff /\ toldOff
    /\ hOut.schemaCalls = 1 /\ Len(hOut.lookups) = 1
    /\ hOut.result.hover

\* ------------------------------------------------------- scheduling claims
\* C12: on a watched-files notification resetSchema is called for every
\* changed uri, in order; every open document is validated when at least one
\* of the calls reported an eviction, and no validation is started when none
\* did.
C12_RevalidateIffEvicted ==
    wLast.made =>
        LET evicted == \E i \in 1..Len(wLast.resets) : wLast.resets[i].evicted
        IN  /\ Len(wLast.resets) = Len(wLast.changes)
            /\ \A i \in 1..Len(wLast.changes) : wLast.resets[i].uri = wLast.changes[i]
            /\ wLast.validated = (IF evicted THEN wLast.all ELSE <<>>)
            /\ wLast.started = (IF evicted THEN Len(wLast.all) ELSE 0)

C12_Witness ==
    /\ wLast.made
    /\ Len(wLast.changes) = 2
    /\ wLast.resets[1].evicted /\ ~wLast.resets[2].evicted
    /\ wLast.validated = <<"u1", "u2">>
    /\ wLast.started = 2

\* The timers of a uri that are set, and the latest timer made for it.
LiveTimers(uri) == {id \in 1..Len(timers) : timers[id].uri = uri /\ timers[id].state = "set"}
LatestTimer(uri) ==
    LET made == {id \in 1..Len(timers) : timers[id].uri = uri}
    IN  CHOOSE id \in made : \A other \in made : other <= id
Fires(id) == timers[id].state = "set" /\ timers'[id].state = "fired"
Cleared(id) == timers[id].state = "set" /\ timers'[id].state = "cleared"
Retriggered(uri) ==
    /\ Len(timers') > Len(timers)
    /\ \E id \in (Len(timers) + 1)..Len(timers') : timers'[id].uri = uri

\* C14: in every state each uri has at most one timer set, and that timer is
\* the one pendingValidationRequests holds; a timer that fires is the one made
\* by the latest trigger for its uri and starts exactly one validation run; a
\* timer is cleared only by a new trigger for its own uri or by the close of
\* its document, never by a trigger for another uri.
C14_Debounced ==
    /\ [](\A uri \in URIs :
            /\ Cardinality(LiveTimers(uri)) <= 1
            /\ \A id \in LiveTimers(uri) : pendingValidationRequests[uri] = id)
    /\ [][\A id \in 1..Len(timers) :
            /\ Fires(id) =>
                  /\ id = LatestTimer(timers[id].uri)
                  /\ RunsStarted(Here)' = RunsStarted(Here) + 1
            /\ Cleared(id) =>
                  \/ Retriggered(timers[id].uri)
                  \/ ~documents'[timers[id].uri].open]_vars

C14_Witness ==
    \E id \in 1..Len(timers) :
        /\ timers[id].state = "fired"
        /\ \E earlier \in 1..(id - 1) :
              timers[earlier].uri = timers[id].uri /\ timers[earlier].state = "cleared"
        /\ \E other \in 1..(id - 1) :
              timers[other].uri # timers[id].uri /\ timers[other].state = "set"
        /\ RunsStarted(Here) = 1

\* ---------------------------------------------- completion claims, continued
\* A position of the text: a line of its line table and a column from 0 to the
\* length of that line's content.
ValidPosition(text, pos) ==
    /\ pos.line >= 0
    /\ pos.line <= Max(Len(getLineOffsets(text)) - 1, 0)
    /\ pos.character >= 0
    /\ pos.character <= Len(LineContent(text, pos.line))

\* C15: for a request at a valid position of the document, the position
\* doComplete receives is a valid position of the document too, its character
\* index never negative.
C15_HandedPositionValid ==
    (CAnswered /\ ValidPosition(CText, CPos)) => ValidPosition(CText, cCall.position)

\* The lines of a text, by its line table.
LineCount(text) == Max(Len(getLineOffsets(text)), 1)
HasEOL(s) == HasChar(s, LF) \/ HasChar(s, CR)

\* C16: the repair changes the cursor's line only: the lines before it and
\* the lines after it are in the repaired text with the same content at the
\* same line index, and the line completionHelper extracts holds no
\* line-terminator character.
C16_OnlyCursorLineChanged ==
    CAnswered =>
        /\ \A k \in 0..(LineCount(CText) - 1) :
              k # CPos.line =>
                  /\ k < LineCount(cCall.newText)
                  /\ LineContent(cCall.newText, k) = LineContent(CText, k)
        /\ ~HasEOL(TextLine(CText, CPos.line))

\* The cursor's offset in the document.
COffset == LineStart(CText, CPos.line) + CPos.character

\* C17 as claimed: the repaired text has the original's character at every
\* offset up to and including the cursor's offset.
C17_AgreesThroughCursor ==
    CAnswered =>
        \A o \in 0..COffset :
            o < Len(CText) => (o < Len(cCall.newText) /\ cCall.newText[o + 1] = CText[o + 1])

\* The offset completionHelper splices at, and the first character it puts
\* there: the space after a bare '-', the placeholder's first character, or ':'.
CSplice == SpliceAt(LineStart(CText, CPos.line), TextLine(CText, CPos.line))
CFirstInserted ==
    LET textLine == TextLine(CText, CPos.line)
        trimmed  == Trim(textLine)
    IN  IF trimmed = <<DASH>> /\ ~EndsWithSpace(textLine) THEN SP
        ELSE IF trimmed = <<>> \/ trimmed = <<DASH>> THEN Holder[1]
        ELSE COLON

\* C17 as amended: the repaired text has the original's character at every
\* offset up to and including the cursor's offset, with one exception: when
\* the cursor's line contains no ':' and the cursor is at the offset the
\* repair is spliced at, the repaired text has at that offset the first
\* inserted character, where the original has a line terminator.
C17_AgreesExceptAtSplice ==
    CAnswered =>
        \A o \in 0..COffset :
            o < Len(CText) =>
                IF ~HasChar(CLine, COLON) /\ o = CSplice
                THEN /\ o = COffset
                     /\ cCall.newText[o + 1] = CFirstInserted
                     /\ is_EOL(CText[o + 1])
                ELSE o < Len(cCall.newText) /\ cCall.newText[o + 1] = CText[o + 1]

C17_Witness ==
    /\ CAnswered /\ ~HasChar(CLine, COLON)
    /\ CPos.line = 1 /\ CPos.character = 1
    /\ Len(CLine) = 1
    /\ COffset < Len(CText) /\ COffset = CSplice
    /\ cCall.newText[COffset + 1] = COLON
    /\ SubSeq(cCall.newText, 1, COffset) = SubSeq(CText, 1, COffset)

\* ------------------------------------------- scheduling claims, continued
\* C18: a closed document has no timer set, its close published an empty
\* list, and no list published for its uri after the close holds a diagnostic
\* (no document is opened again here).
C18_NothingPublishedAfterClose ==
    /\ \A uri \in URIs : ~documents[uri].open => LiveTimers(uri) = {}
    /\ \A i \in 1..Len(sent) :
          sent[i].run = 0 =>
              /\ sent[i].diagnostics = <<>>
              /\ \A j \in (i + 1)..Len(sent) :
                    sent[j].uri = sent[i].uri => sent[j].diagnostics = <<>>

\* C19: for each uri the lists are published in the order their validation
\* runs were started.
C19_PublishedInStartOrder ==
    \A i, j \in 1..Len(sent) :
        (i < j /\ sent[i].uri = sent[j].uri /\ sent[i].run > 0 /\ sent[j].run > 0)
            => sent[i].run < sent[j].run

\* ------------------------------------------------------------ parsing claim
\* C20: the tree each of the four handlers works on (validation, completion,
\* hover, symbols) is the parse of its text with the configured custom tags,
\* listed tags being Custom-Tag nodes in it.
C20_SameTagsForEveryHandler ==
    /\ \A i \in 1..Len(inflight) :
          inflight[i].yamlDocument = parseYAML(inflight[i].of.text, customTags)
    /\ cCall.made => cCall.jsonDocument = parseYAML(cCall.newText, customTags)
    /\ (qCall.handler # "none" /\ qCall.reply # "undefined") =>
          qCall.jsonDocument = parseYAML(qCall.text, customTags)

====
